---- MODULE Spec2Model ----
(***************************************************************************)
(* BookBuddy firmware (src/unnamed/part_000, the ESP32 sketch): the        *)
(* presence tracker, the emotion phase machine, the touch classifier, the  *)
(* clock and the telemetry handlers, as a state machine.                   *)
(*                                                                         *)
(* The loop task runs loop(): updateBookStates (one step per slot, then    *)
(* the count/celebration/publish tail), handleTouchSensor,                 *)
(* calculateEmotion, and the tail of loop() with its delay.  The handlers  *)
(* of the asynchronous web server (WebSocket connect/disconnect,           *)
(* GET /api/status, POST /api/synctime) run in the server's own task, with *)
(* no lock: a handler may fall between any two steps of the loop, and the  *)
(* loop may take a step while a handler is reading the globals.            *)
(*                                                                         *)
(* uint32_t values are kept as the 32-bit pattern read as a signed number: *)
(* a value v below 2^31 is v itself, a value v from 2^31 on is v - 2^32.   *)
(* U32Add, U32Sub, U32Lt and U32Div are the unsigned operations on that    *)
(* representation (TLC's integers are 32-bit signed).                      *)
(***************************************************************************)
EXTENDS Integers, Sequences, FiniteSets, TLC

\* ------------------------------------------------------------------------
\* uint32_t arithmetic
\* ------------------------------------------------------------------------
MaxInt == 1073741823 + 1073741824
MinInt == (-MaxInt) - 1

\* (a + b) mod 2^32
U32Add(a, b) ==
  IF a >= 0 /\ b >= 0
    THEN (IF a <= MaxInt - b THEN a + b ELSE (a + MinInt) + (b + MinInt))
    ELSE IF a < 0 /\ b < 0
      THEN (IF a >= MinInt - b THEN a + b ELSE (a - MinInt) + (b - MinInt))
      ELSE a + b

\* (a - b) mod 2^32
U32Sub(a, b) ==
  IF a >= 0 /\ b < 0
    THEN (IF a <= MaxInt + b THEN a - b ELSE (a + MinInt) - (b - MinInt))
    ELSE IF a < 0 /\ b >= 0
      THEN (IF a >= MinInt + b THEN a - b ELSE (a - MinInt) - (b + MinInt))
      ELSE a - b

\* a < b, a <= b, a > b, a >= b as unsigned values
U32Lt(a, b) == IF (a >= 0) = (b >= 0) THEN a < b ELSE a >= 0
U32Le(a, b) == a = b \/ U32Lt(a, b)
U32Gt(a, b) == U32Lt(b, a)
U32Ge(a, b) == U32Le(b, a)

\* a / c (unsigned a, constant c in 2..MaxInt)
U32Div(a, c) ==
  IF a >= 0
    THEN a \div c
    ELSE ((a - MinInt) \div c) + (MaxInt \div c)
         + ((((a - MinInt) % c) + (MaxInt % c) + 1) \div c)

\* a mod c (unsigned a, constant c in 2..MaxInt)
U32Mod(a, c) ==
  IF a >= 0
    THEN a % c
    ELSE (((a - MinInt) % c) + (MaxInt % c) + 1) % c

\* ------------------------------------------------------------------------
\* Program constants
\* ------------------------------------------------------------------------
NUM_BOOKS          == 5
BOOT_CALM_TIME     == 300000
CALM_HOLD_TIME     == 300000
DEGRADE_INTERVAL   == 300000
DEGRADE_STAGES     == 5
LONG_PRESS_TIME    == 2000
WS_UPDATE_INTERVAL == 2000
LOOP_DELAY         == 30
MIN_SYNC_EPOCH     == 1000000000
\* the dashboard: seconds to a reconnect and between demo ticks, entries the
\* timeline keeps, points a chart draws
RECONNECT_DELAY    == 3
DEMO_INTERVAL      == 2
TIMELINE_CAP       == 200
CHART_POINTS       == 50

Slots == 0 .. (NUM_BOOKS - 1)

BOOK_NAMES == <<"English", "Hindi", "Maths", "Marathi", "Science">>

Emotion == {"EMOTION_NEUTRAL", "EMOTION_CALM", "EMOTION_HAPPY", "EMOTION_PROUD",
            "EMOTION_VERY_PROUD", "EMOTION_SAD", "EMOTION_VERY_SAD",
            "EMOTION_REMINDER"}

\* ------------------------------------------------------------------------
\* Bounds of the model, and the environments it runs the device in
\* ------------------------------------------------------------------------
\* millis() when setup() returns, and the RTC's time at that instant
SetupMillis == 12420
SetupEpoch  == 1700000000
\* In one run: passes of loop(), books put on or taken off, raw transitions
\* that do not last, touch presses, clock-sync requests that set the clock,
\* and WebSocket clients attached at once; in the dashboard, the sockets
\* made, the demo intervals started, and the entries and points of a chart
\* besides those of the full timeline
MaxCycles   == 7
MaxChanges  == 7
MaxBounces  == 1
MaxPresses  == 1
MaxSyncs    == 3
MaxClients  == 2
MaxSockets  == 3
MaxIntervals == 2
MaxEntries  == 24
MaxPoints   == 8

\* An environment: what setup() found (RTC, audio player, WiFi), whether
\* clients attach to the WebSocket and pull the status, the numbers of books
\* that may lie on the switches (always the first slots), the times a pass of
\* loop() may take from its delay(30) on (the delay alone, or the delay and a
\* stretch of passes in which no input changes), and how many passes, book
\* changes, bounces, presses and clock changes the run has left.
Environment(rtc, df, wifi, watch, levels, times, cycles, changes, bounces, presses, syncs) ==
  [rtc |-> rtc, df |-> df, wifi |-> wifi, watch |-> watch, levels |-> levels,
   times |-> times, cycles |-> cycles, changes |-> changes,
   bounces |-> bounces, presses |-> presses, syncs |-> syncs]

\* clock-sync requests while a book is put on and taken off
EnvSync ==
  Environment(TRUE, FALSE, TRUE, FALSE, {0, 1}, {LOOP_DELAY},
              MaxCycles - 3, MaxChanges - 3, 0, 0, MaxSyncs)
\* presence accounting on the RTC: 50 s between two passes
EnvAccrual ==
  Environment(TRUE, FALSE, FALSE, FALSE, {0, 1, 2}, {LOOP_DELAY, 48450},
              MaxCycles - 4, MaxChanges - 3, MaxBounces, 0, 0)
\* presence accounting on the uptime clock, up to the day millis() wraps
EnvUptime ==
  Environment(FALSE, TRUE, TRUE, FALSE, {0, 1},
              {LOOP_DELAY, 48450, BOOT_CALM_TIME,
               U32Sub(0, SetupMillis + BOOT_CALM_TIME)},
              MaxCycles - 4, MaxChanges - 5, 0, 0, 0)
\* the phases: boot calm, calm hold, the degrade stages
EnvPhases ==
  Environment(TRUE, TRUE, FALSE, FALSE, {0, 4, 5},
              {LOOP_DELAY, CALM_HOLD_TIME},
              MaxCycles, MaxChanges, 0, 0, 0)
\* presses of every length with no book placed
EnvTouch ==
  Environment(FALSE, FALSE, FALSE, FALSE, {0},
              {LOOP_DELAY, 50, 51, 1800, LONG_PRESS_TIME - 1, LONG_PRESS_TIME},
              MaxCycles - 4, 0, 0, MaxPresses, 0)
\* a press while all five books lie there: calm hold, degrade
EnvTouchPhase ==
  Environment(FALSE, FALSE, FALSE, FALSE, {5},
              {50, 1800, 2500, CALM_HOLD_TIME},
              MaxCycles - 2, MaxChanges - 2, 0, MaxPresses, 0)
\* the phases watched by a client
EnvWatch ==
  Environment(TRUE, FALSE, TRUE, TRUE, {0, 5},
              {WS_UPDATE_INTERVAL, CALM_HOLD_TIME},
              MaxCycles - 4, MaxChanges - 2, 0, 0, 0)

\* every number of books, in the Normal phase
EnvCounts ==
  Environment(FALSE, FALSE, FALSE, FALSE, 0 .. NUM_BOOKS, {LOOP_DELAY},
              MaxCycles - 4, MaxChanges - 2, 0, 0, 0)

\* five books left alone for a day, but for one press: the hold, its expiry
\* found by a tick that a long press has delayed, the stages, and the pass
\* 256 degrade intervals after the start of degrade
EnvHold ==
  Environment(FALSE, TRUE, FALSE, FALSE, {5},
              {CALM_HOLD_TIME - 2500, LONG_PRESS_TIME, DEGRADE_INTERVAL,
               251 * DEGRADE_INTERVAL},
              MaxCycles + 1, MaxChanges - 2, 0, MaxPresses, 0)

\* five books left alone until the reminder, the passes after it, and a
\* book taken off then
EnvRemind ==
  Environment(FALSE, TRUE, FALSE, FALSE, {4, 5}, {LOOP_DELAY, DEGRADE_INTERVAL},
              MaxCycles + 2, MaxChanges - 1, 0, 0, 0)

\* five books placed 1000 ms, or 301000 ms, before the counter of millis()
\* passes 2^32, then left alone
EnvWrap ==
  Environment(FALSE, FALSE, TRUE, FALSE, {0, 5},
              {BOOT_CALM_TIME,
               U32Sub(0, SetupMillis + BOOT_CALM_TIME + 5 * 1550 + 2000 + 1000),
               U32Sub(0, SetupMillis + BOOT_CALM_TIME + 5 * 1550 + 2000 + 1000
                         + CALM_HOLD_TIME)},
              MaxCycles - 3, MaxChanges - 2, 0, 0, 0)

\* a press that starts 1000 ms before the counter of millis() passes 2^32
EnvWrapTouch ==
  Environment(FALSE, FALSE, FALSE, FALSE, {0},
              {BOOT_CALM_TIME, 1800, LONG_PRESS_TIME,
               U32Sub(0, SetupMillis + BOOT_CALM_TIME + 1000)},
              MaxCycles - 4, 0, 0, MaxPresses, 0)

\* three books placed during boot calm while a client is attached
EnvStale ==
  Environment(FALSE, FALSE, TRUE, TRUE, {3}, {WS_UPDATE_INTERVAL},
              MaxCycles - 5, MaxChanges - 4, 0, 0, 0)

Environments ==
  {EnvSync, EnvAccrual, EnvUptime, EnvPhases, EnvTouch, EnvTouchPhase, EnvWatch,
   EnvCounts, EnvHold, EnvRemind, EnvStale, EnvWrap, EnvWrapTouch}

\* The numbers written after "epoch": in the body of a clock-sync request: a
\* sign and a magnitude, the magnitude as a uint32_t (0 also stands for text
\* that is no number); the last one is 3000000000
SyncTexts ==
  {[neg |-> FALSE, mag |-> 0], [neg |-> TRUE, mag |-> 200000000],
   [neg |-> FALSE, mag |-> MIN_SYNC_EPOCH],
   [neg |-> FALSE, mag |-> MIN_SYNC_EPOCH + 1],
   [neg |-> FALSE, mag |-> MaxInt],
   [neg |-> FALSE, mag |-> U32Add(MaxInt, 852516353)]}

\* String::toInt() is atol(): the text as a 32-bit long, which the C library
\* of the build (strtol) holds at LONG_MAX for a number above it
toInt(text) ==
  IF text.neg THEN - text.mag
  ELSE IF U32Gt(text.mag, MaxInt) THEN MaxInt ELSE text.mag

\* The value String::toInt() yields for the text after "epoch": in the body of
\* a clock-sync request, as a 32-bit long (0 for text that is no number)
SyncEpochs == {toInt(text) : text \in SyncTexts}

\* the bodies of clock-sync requests: without the field, or with it; sent is
\* the number written, epoch what toInt() makes of it
SyncBodies ==
  {[hasEpoch |-> FALSE, epoch |-> 0, sent |-> [neg |-> FALSE, mag |-> 0]]}
    \cup {[hasEpoch |-> TRUE, epoch |-> toInt(text), sent |-> text] :
             text \in SyncTexts}

VARIABLES
  ms,                    \* millis(): uint32_t milliseconds since power-on
  rtcReady,              \* an RTC was found by setup()
  rtcSec, rtcMs,         \* the RTC's time: unix seconds, and ms into the second
  dfPlayerReady,         \* an audio player was found by setup()
  wifiConnected,         \* WiFi joined by setup(): the web server runs
  books,                 \* BookState books[NUM_BOOKS]
  currentBookCount, lastBookCount, allBooksAnnouncedOnce,
  lastInteractionTime,
  inBootCalmPeriod, bootCompleteTime,
  calmHoldActive, calmHoldStartTime,
  degradeActive, degradeStartTime, currentDegradeStage, reminderSpoken,
  currentEmotion, lastEmotion,
  touchPressed, touchStartTime,
  lastWsUpdate,
  wsCount,               \* ws.count(): attached WebSocket clients
  pc,                    \* where the loop task is in loop()
  slot,                  \* updateBookStates: the loop variable i
  bookCount,             \* updateBookStates: the local bookCount
  currentTime,           \* updateBookStates: the local currentTime
  asm,                   \* the server task: the snapshot a handler is assembling
  out,                   \* what the last step handed to the network, if anything
  emitted,               \* what the last step announced (display, audio, serial)
  level,                 \* books on the switches: slots 0 .. level-1
  env,                   \* the environment of the run and what it has left
  ledger,                \* history: per slot, the presence intervals so far
  seen,                  \* history: the presence changes of the current pass
  since,                 \* history: the true time since each stored instant
  hook,                  \* the dashboard: the state of useBookBuddy and App
  chart                  \* the dashboard: a timeline handed to sampleData

clockVars == <<ms, rtcSec, rtcMs>>
cfgVars   == <<rtcReady, dfPlayerReady, wifiConnected>>
slotVars  == <<books, currentBookCount, lastBookCount, allBooksAnnouncedOnce,
               lastInteractionTime>>
phaseVars == <<inBootCalmPeriod, bootCompleteTime, calmHoldActive,
               calmHoldStartTime, degradeActive, degradeStartTime,
               currentDegradeStage, reminderSpoken>>
moodVars  == <<currentEmotion, lastEmotion>>
touchVars == <<touchPressed, touchStartTime>>
loopVars  == <<pc, slot, bookCount, currentTime>>
envVars   == <<level, env>>
histVars  == <<ledger, seen>>
viewVars  == <<hook, chart>>
deviceVars == <<clockVars, cfgVars, slotVars, phaseVars, moodVars, touchVars,
                lastWsUpdate, wsCount, loopVars, asm, out, emitted, envVars,
                histVars, since>>
vars == <<deviceVars, viewVars>>

\* an elapsed time that is 0 when the counter reads less than the start
ElapsedNoWrap(now, start) == IF U32Lt(now, start) THEN 0 ELSE U32Sub(now, start)

\* uint32_t elapsed = currentTime - start: the unsigned difference of two
\* readings of millis()
Elapsed(now, start) == U32Sub(now, start)

\* every time a pass may take in some environment
CycleTimes == UNION {e.times : e \in Environments}

\* ------------------------------------------------------------------------
\* Clock
\* ------------------------------------------------------------------------
\* millis() and the RTC reading d ms after the current instant
MillisAfter(d) == U32Add(ms, d)
RtcSecAfter(d) ==
  U32Add(rtcSec, U32Div(d, 1000) + ((rtcMs + U32Mod(d, 1000)) \div 1000))

\* the passing of d ms
Elapse(d) ==
  /\ ms' = MillisAfter(d)
  /\ rtcSec' = IF rtcReady THEN RtcSecAfter(d) ELSE rtcSec
  /\ rtcMs' = IF rtcReady THEN (rtcMs + U32Mod(d, 1000)) % 1000 ELSE rtcMs

\* getRTCEpoch() called d ms after the current instant
RTCEpochAfter(d) ==
  IF ~rtcReady THEN U32Div(MillisAfter(d), 1000) ELSE RtcSecAfter(d)

getRTCEpoch == RTCEpochAfter(0)

\* getBookTotalSeconds(idx) on the slot record b, the clock reading now
BookTotalAt(b, now) ==
  IF b.tracking /\ U32Gt(b.lastPlacedEpoch, 0) /\ U32Gt(now, b.lastPlacedEpoch)
    THEN U32Add(b.cumulativeSeconds, U32Sub(now, b.lastPlacedEpoch))
    ELSE b.cumulativeSeconds

getBookTotalSeconds(idx) == BookTotalAt(books[idx], getRTCEpoch)

\* ------------------------------------------------------------------------
\* Telemetry snapshot
\* ------------------------------------------------------------------------
getEmotionName ==
  CASE currentEmotion = "EMOTION_NEUTRAL"    -> "Neutral"
    [] currentEmotion = "EMOTION_CALM"       -> "Calm"
    [] currentEmotion = "EMOTION_HAPPY"      -> "Happy"
    [] currentEmotion = "EMOTION_PROUD"      -> "Proud"
    [] currentEmotion = "EMOTION_VERY_PROUD" -> "Very Proud"
    [] currentEmotion = "EMOTION_SAD"        -> "Sad"
    [] currentEmotion = "EMOTION_VERY_SAD"   -> "Very Sad"
    [] currentEmotion = "EMOTION_REMINDER"   -> "Reminder"
    [] OTHER                                 -> "Unknown"

\* totalSecs += getBookTotalSeconds(i) over the first n slots (the running
\* total is bound to its value before the next addition reads it)
RECURSIVE SumTotals(_)
SumTotals(n) ==
  IF n = 0 THEN 0
  ELSE CHOOSE total \in {U32Add(totalSecs, getBookTotalSeconds(n - 1)) :
                           totalSecs \in {SumTotals(n - 1)}} : TRUE

\* the "time" field: the RTC's time as text, or "N/A"
TimeField == [na |-> ~rtcReady, epoch |-> IF rtcReady THEN rtcSec ELSE 0]

BooksField ==
  [i \in Slots |-> [name |-> BOOK_NAMES[i + 1], present |-> books[i].present,
                    totalSeconds |-> getBookTotalSeconds(i)]]

\* the JSON object sendWebSocketUpdate() builds from the current state
PushSnapshot ==
  [status |-> "live", uptime |-> U32Div(ms, 1000), emotion |-> getEmotionName,
   booksPlaced |-> currentBookCount, time |-> TimeField, books |-> BooksField,
   totalStudySeconds |-> SumTotals(NUM_BOOKS),
   degradeStage |-> currentDegradeStage, bootCalm |-> inBootCalmPeriod,
   calmHold |-> calmHoldActive, degradeActive |-> degradeActive]

\* the JSON object the /api/status handler builds from the current state
PullSnapshot ==
  [status |-> "live", uptime |-> U32Div(ms, 1000), emotion |-> getEmotionName,
   booksPlaced |-> currentBookCount, time |-> TimeField, books |-> BooksField,
   totalStudySeconds |-> SumTotals(NUM_BOOKS),
   degradeStage |-> currentDegradeStage, bootCalm |-> inBootCalmPeriod]

\* The fields in the order the two builders read them from the device's
\* state; the /api/status handler stops after bootCalm.
PushFields == <<"status", "uptime", "emotion", "booksPlaced", "time", "books",
                "totalStudySeconds", "degradeStage", "bootCalm", "calmHold",
                "degradeActive">>
PullFields == SubSeq(PushFields, 1, Len(PushFields) - 2)
Position(f) == CHOOSE k \in 1 .. Len(PushFields) : PushFields[k] = f

\* The handlers of the web server run in the server's task while loop() runs
\* in its own: the globals are read with no lock.  Torn is the snapshot whose
\* first cut fields were read when the state gave early, the others when it
\* gave late.
Torn(early, late, cut) ==
  [f \in DOMAIN late |-> IF Position(f) <= cut THEN early[f] ELSE late[f]]

Idle == [kind |-> "idle"]
Nothing == [kind |-> "none"]

\* the snapshot built and handed to ws.textAll whether a client is there or not
sendWebSocketUpdateUnguarded ==
  [kind |-> "push", clients |-> wsCount, snap |-> PushSnapshot]

\* sendWebSocketUpdate(): what ws.textAll is given, if there is a client
sendWebSocketUpdate ==
  IF wsCount = 0 THEN Nothing
  ELSE [kind |-> "push", clients |-> wsCount, snap |-> PushSnapshot]

\* ------------------------------------------------------------------------
\* The dashboard: App and its hook useBookBuddy(ipAddress)
\* ------------------------------------------------------------------------
\* What is typed into the connection panel: a host, with or without "http://"
\* in front.  null and the empty text are the address with no host.  The
\* texts typed here are those of two devices.
Hosts == {"192.168.4.1", "bookbuddy.local"}
NoAddress == [scheme |-> FALSE, host |-> ""]
Typed ==
  {[scheme |-> FALSE, host |-> "192.168.4.1"],
   [scheme |-> TRUE, host |-> "bookbuddy.local"]}

\* ip.replace(/^https?:\/\//, '').replace(/\/$/, '')
cleanIp(ip) == ip.host

\* new WebSocket(`ws://${cleanIp}/ws`) throws on a text that is no URL
WellFormed(host) == host \in Hosts

\* the hook after the first render: nothing connected, no timer
Mounted ==
  [ipAddress |-> NoAddress,   \* App's state, the hook's argument
   connected |-> FALSE,
   demoMode  |-> FALSE,
   error     |-> FALSE,       \* error is not null
   status    |-> "none",      \* who called setStatus last: a socket or the demo
   sockets   |-> <<>>,        \* every WebSocket made so far
   wsRef     |-> 0,           \* wsRef.current: a place in sockets, 0 for null
   timeouts  |-> <<>>,        \* the reconnect timeouts set and not yet run
   intervals |-> <<>>,        \* the demo intervals running: seconds to the tick
   demoIntervalRef |-> FALSE] \* demoIntervalRef.current is the last of them

\* ws.close()
Closing(sockets, ref) ==
  IF ref # 0 /\ sockets[ref].state \in {"connecting", "open"}
  THEN [sockets EXCEPT ![ref].state = "closing"]
  ELSE sockets

stopDemo(h) ==
  [h EXCEPT !.demoMode = FALSE,
            !.intervals = IF h.demoIntervalRef
                          THEN SubSeq(h.intervals, 1, Len(h.intervals) - 1)
                          ELSE h.intervals,
            !.demoIntervalRef = FALSE]

\* connect(ip) as made by the render whose ipAddress was `captured`: the
\* handlers of the new socket keep that value
connect(h, ip, captured) ==
  LET stopped == stopDemo([h EXCEPT !.sockets = Closing(h.sockets, h.wsRef)])
  IN  IF WellFormed(cleanIp(ip))
      THEN [stopped EXCEPT
              !.error = FALSE,
              !.sockets = Append(stopped.sockets,
                                 [url |-> cleanIp(ip), captured |-> captured,
                                  state |-> "connecting", opened |-> FALSE]),
              !.wsRef = Len(stopped.sockets) + 1]
      ELSE [stopped EXCEPT !.error = TRUE]

\* App.handleConnect(ip): setIpAddress(ip) takes effect with the next render,
\* connect is the one of the current render
HandleConnect(ip) ==
  /\ Len(hook.sockets) < MaxSockets
  /\ hook' = [connect(hook, ip, hook.ipAddress) EXCEPT !.ipAddress = ip]

StartDemo ==
  /\ Len(hook.intervals) < MaxIntervals
  /\ hook' = [hook EXCEPT !.demoMode = TRUE, !.connected = TRUE,
                          !.error = FALSE, !.status = "demo",
                          !.intervals = Append(@, DEMO_INTERVAL),
                          !.demoIntervalRef = TRUE]

StopDemo == hook' = stopDemo(hook)

\* ws.onopen
SocketOpen(k) ==
  /\ hook.sockets[k].state = "connecting"
  /\ hook' = [hook EXCEPT !.sockets[k].state = "open",
                          !.sockets[k].opened = TRUE,
                          !.connected = TRUE, !.error = FALSE]

\* ws.onmessage with a snapshot of the device
SocketMessage(k) ==
  /\ hook.sockets[k].state = "open"
  /\ hook' = [hook EXCEPT !.status = "live"]

\* ws.onerror: the connection failed; its close event follows
SocketError(k) ==
  /\ hook.sockets[k].state \in {"connecting", "open"}
  /\ hook' = [hook EXCEPT !.sockets[k].state = "closing",
                          !.error = TRUE, !.connected = FALSE]

\* ws.onclose: after close(), after an error, or when the device ends it
SocketClose(k) ==
  /\ hook.sockets[k].state \in {"open", "closing"}
  /\ hook' = [hook EXCEPT !.sockets[k].state = "closed",
                          !.connected = FALSE,
                          !.timeouts = Append(@, [left |-> RECONNECT_DELAY,
                                                  from |-> k])]

Without(seq, j) == SubSeq(seq, 1, j - 1) \o SubSeq(seq, j + 1, Len(seq))

\* the callback of the reconnect timeout: if (ipAddress) connect(ipAddress)
Reconnect(j) ==
  LET captured == hook.sockets[hook.timeouts[j].from].captured
      rest == [hook EXCEPT !.timeouts = Without(hook.timeouts, j)]
  IN  /\ hook.timeouts[j].left = 0
      /\ Len(hook.sockets) < MaxSockets
      /\ hook' = IF captured.host # "" THEN connect(rest, captured, captured)
                 ELSE rest

\* tick() of a demo interval
DemoTick(j) ==
  /\ hook.intervals[j] = 0
  /\ hook' = [hook EXCEPT !.status = "demo", !.intervals[j] = DEMO_INTERVAL]

\* a second goes by with no timer due
Second ==
  /\ Len(hook.timeouts) + Len(hook.intervals) > 0
  /\ \A j \in DOMAIN hook.timeouts : hook.timeouts[j].left > 0
  /\ \A j \in DOMAIN hook.intervals : hook.intervals[j] > 0
  /\ hook' = [hook EXCEPT
                !.timeouts = [j \in DOMAIN hook.timeouts |->
                                [hook.timeouts[j] EXCEPT !.left = @ - 1]],
                !.intervals = [j \in DOMAIN hook.intervals |->
                                 hook.intervals[j] - 1]]

\* ------------------------------------------------------------------------
\* The dashboard: sampleData(data, maxPoints) of the charts
\* ------------------------------------------------------------------------
\* a timeline of n entries, each named by its place
Timeline(n) == [t \in 1 .. n |-> t]

\* Math.ceil(a / b) for whole a >= 0 and b > 0
Ceil(a, b) == (a + b - 1) \div b

\* data.filter((_, i) => i % step === 0 || i === data.length - 1) over the
\* entries of index lo .. hi, in their order
RECURSIVE Filtered(_, _, _, _)
Filtered(data, step, lo, hi) ==
  IF lo > hi THEN <<>>
  ELSE IF lo = hi
    THEN (IF lo % step = 0 \/ lo = Len(data) - 1 THEN <<data[lo + 1]>> ELSE <<>>)
    ELSE Filtered(data, step, lo, (lo + hi) \div 2)
           \o Filtered(data, step, ((lo + hi) \div 2) + 1, hi)

sampleData(data, maxPoints) ==
  IF Len(data) <= maxPoints THEN data
  ELSE Filtered(data, Ceil(Len(data), maxPoints), 0, Len(data) - 1)

\* the timelines and the numbers of points a chart is drawn with
ChartInputs ==
  [data : {Timeline(n) : n \in (0 .. MaxEntries) \cup {TIMELINE_CAP}},
   maxPoints : (1 .. MaxPoints) \cup {CHART_POINTS}]

NoChart == [data |-> <<>>, maxPoints |-> CHART_POINTS, drawn |-> FALSE,
            sampled |-> <<>>]

\* a chart renders: const sampled = sampleData(data, maxPoints)
Draw ==
  /\ ~chart.drawn
  /\ chart' = [chart EXCEPT !.drawn = TRUE,
                            !.sampled = sampleData(chart.data, chart.maxPoints)]

\* ------------------------------------------------------------------------
\* Initial state: setup() has returned
\* ------------------------------------------------------------------------
Setup ==
  /\ env \in Environments
  /\ level = 0
  /\ ms = SetupMillis
  /\ rtcReady = env.rtc
  /\ rtcSec = (IF rtcReady THEN SetupEpoch ELSE 0)
  /\ rtcMs = 0
  /\ dfPlayerReady = env.df
  /\ wifiConnected = env.wifi
  /\ books = [i \in Slots |-> [present |-> FALSE, wasPresent |-> FALSE,
                                lastPlacedEpoch |-> 0, cumulativeSeconds |-> 0,
                                tracking |-> FALSE]]
  /\ currentBookCount = 0
  /\ lastBookCount = 0
  /\ allBooksAnnouncedOnce = FALSE
  \* set before showIntro(), whose delays are 5*80+1500, 4*80+1200, 2000, 2500
  /\ lastInteractionTime = SetupMillis - (5*80 + 1500 + 4*80 + 1200 + 2000 + 2500)
  /\ inBootCalmPeriod = TRUE
  /\ bootCompleteTime = SetupMillis
  /\ calmHoldActive = FALSE
  /\ calmHoldStartTime = 0
  /\ degradeActive = FALSE
  /\ degradeStartTime = 0
  /\ currentDegradeStage = 0
  /\ reminderSpoken = FALSE
  /\ currentEmotion = "EMOTION_CALM"
  /\ lastEmotion = "EMOTION_CALM"
  /\ touchPressed = FALSE
  /\ touchStartTime = 0
  /\ lastWsUpdate = 0
  /\ wsCount = 0
  /\ pc = "books"
  /\ slot = 0
  /\ bookCount = 0
  /\ currentTime = 0
  /\ asm = Idle
  /\ out = Nothing
  /\ emitted = {}
  /\ ledger = [i \in Slots |-> [sum |-> 0, open |-> FALSE, latest |-> 0,
                                 ordered |-> TRUE]]
  /\ seen = {}
  /\ since = [boot |-> 0, hold |-> SetupMillis, degrade |-> SetupMillis,
              press |-> SetupMillis, publish |-> SetupMillis,
              power |-> SetupMillis \div 1000, powerMs |-> SetupMillis % 1000]

\* the device has booted and the dashboard has been opened
Init == Setup /\ hook = Mounted /\ chart = NoChart

\* ------------------------------------------------------------------------
\* updateBookStates(): one pass of its loop over the slots
\* ------------------------------------------------------------------------
\* a change of presence ends every phase but Normal, yet keeps the stage
ChangeResetKeepsStage ==
  /\ inBootCalmPeriod' = FALSE
  /\ calmHoldActive' = FALSE
  /\ degradeActive' = FALSE
  /\ currentDegradeStage' = currentDegradeStage
  /\ reminderSpoken' = FALSE

\* a change of presence ends boot calm and nothing else
ChangeResetBootCalmOnly ==
  /\ inBootCalmPeriod' = FALSE
  /\ UNCHANGED <<calmHoldActive, degradeActive, currentDegradeStage,
                 reminderSpoken>>

\* a change of presence starts boot calm anew
ChangeResetToBootCalm ==
  /\ inBootCalmPeriod' = TRUE
  /\ calmHoldActive' = FALSE
  /\ degradeActive' = FALSE
  /\ currentDegradeStage' = 0
  /\ reminderSpoken' = FALSE

\* a change of presence ends boot calm, calm hold and degrade
ChangeReset ==
  /\ inBootCalmPeriod' = FALSE
  /\ calmHoldActive' = FALSE
  /\ degradeActive' = FALSE
  /\ currentDegradeStage' = 0
  /\ reminderSpoken' = FALSE

\* the first read taken as it is, with no re-read
Undebounced(raw1, raw2, present) == raw1

\* the state of a sensor after debouncing: a raw read that differs from the
\* slot's present flag is read again after the settle delay
Debounced(raw1, raw2, present) == IF raw1 # present THEN raw2 ELSE raw1

\* the interval added on removal whatever the order of the two epochs
AccruesUnclamped(b, now) == b.tracking /\ U32Gt(b.lastPlacedEpoch, 0)

\* a removal adds the interval only when the slot is tracking, its
\* placement epoch is set and the clock now is later than it
Accrues(b, now) == b.tracking /\ U32Gt(b.lastPlacedEpoch, 0) /\ U32Gt(now, b.lastPlacedEpoch)

\* raw1 is the first read of the slot's pin (TRUE: book on the switch), raw2
\* the read after the settle delay, taken only if raw1 differs from present.
SlotStep(raw1, raw2) ==
  LET i == slot
      b == books[i]
      debounce == raw1 # b.present
      currentState == Debounced(raw1, raw2, b.present)
      settle == IF debounce THEN 50 ELSE 0
      changed == currentState # b.wasPresent
      now == RTCEpochAfter(settle)
      accrue == Accrues(b, now)
      nb == IF ~changed THEN [b EXCEPT !.present = currentState]
            ELSE IF currentState
              THEN [b EXCEPT !.lastPlacedEpoch = now, !.tracking = TRUE,
                             !.wasPresent = currentState,
                             !.present = currentState]
              ELSE [b EXCEPT !.cumulativeSeconds =
                               IF accrue
                                 THEN U32Add(@, U32Sub(now, b.lastPlacedEpoch))
                                 ELSE @,
                             !.tracking = FALSE, !.lastPlacedEpoch = 0,
                             !.wasPresent = currentState,
                             !.present = currentState]
      show == IF ~changed THEN 0
              ELSE IF currentState
                THEN (IF dfPlayerReady THEN 700 ELSE 0) + 1500
                ELSE (IF dfPlayerReady THEN 300 ELSE 0) + 1500
      start == IF i = 0 THEN ms ELSE currentTime
  IN
  /\ pc = "books"
  /\ ~debounce => raw2 = raw1
  /\ currentTime' = start
  /\ books' = [books EXCEPT ![i] = nb]
  /\ bookCount' = (IF i = 0 THEN 0 ELSE bookCount) + (IF currentState THEN 1 ELSE 0)
  /\ IF changed
       THEN /\ lastInteractionTime' = start
            /\ ChangeReset
       ELSE UNCHANGED <<lastInteractionTime, inBootCalmPeriod, calmHoldActive,
                        degradeActive, currentDegradeStage, reminderSpoken>>
  /\ Elapse(settle + show)
  /\ slot' = IF i = NUM_BOOKS - 1 THEN 0 ELSE i + 1
  /\ pc' = IF i = NUM_BOOKS - 1 THEN "count" ELSE "books"
  /\ emitted' = IF ~changed THEN {}
                ELSE IF currentState THEN {<<"PLACED", i>>} ELSE {<<"REMOVED", i>>}
  /\ out' = Nothing
  /\ UNCHANGED <<cfgVars, currentBookCount, lastBookCount, allBooksAnnouncedOnce,
                 bootCompleteTime, calmHoldStartTime, degradeStartTime,
                 moodVars, touchVars, lastWsUpdate, wsCount>>

\* updateBookStates() after the loop: the counts, the celebration and the
\* throttled publish
\* the celebration at every pass that counts five books
AllPlacedEveryPass(count) == count = 5

\* the celebration at every pass that counts five books outside hold and
\* degrade
AllPlacedWhileNormal(count) == count = 5 /\ ~calmHoldActive /\ ~degradeActive

\* the test for the celebration: currentBookCount == 5 && lastBookCount < 5
\* && !allBooksAnnouncedOnce, once the two counts are assigned
AllPlaced(count) ==
  count = 5 /\ currentBookCount < 5 /\ ~allBooksAnnouncedOnce

BooksTail ==
  LET celebrate == AllPlaced(bookCount)
      party == IF celebrate
                 THEN (IF dfPlayerReady THEN 500 + 2000 ELSE 0) + 2000 ELSE 0
      due == wifiConnected
             /\ U32Ge(Elapsed(MillisAfter(party), lastWsUpdate), WS_UPDATE_INTERVAL)
  IN
  /\ pc = "count"
  /\ lastBookCount' = currentBookCount
  /\ currentBookCount' = bookCount
  /\ IF celebrate
       THEN /\ calmHoldActive' = TRUE
            /\ calmHoldStartTime' = MillisAfter(party)
            /\ degradeActive' = FALSE
            /\ currentDegradeStage' = 0
            /\ reminderSpoken' = FALSE
            /\ currentEmotion' = "EMOTION_CALM"
       ELSE UNCHANGED <<calmHoldActive, calmHoldStartTime, degradeActive,
                        currentDegradeStage, reminderSpoken, currentEmotion>>
  /\ allBooksAnnouncedOnce' = IF bookCount < 5 THEN FALSE
                              ELSE (celebrate \/ allBooksAnnouncedOnce)
  /\ Elapse(party)
  /\ lastWsUpdate' = IF due THEN MillisAfter(party) ELSE lastWsUpdate
  /\ emitted' = IF celebrate THEN {<<"ALL_PLACED", NUM_BOOKS>>} ELSE {}
  /\ pc' = "touch"
  /\ UNCHANGED <<cfgVars, books, lastInteractionTime, inBootCalmPeriod,
                 bootCompleteTime, degradeStartTime, lastEmotion, touchVars,
                 wsCount, slot, bookCount, currentTime, envVars>>
  /\ out' = IF due THEN sendWebSocketUpdate' ELSE Nothing

\* ------------------------------------------------------------------------
\* handleTouchSensor(): reading is the level of the touch pin
\* ------------------------------------------------------------------------
\* calm hold and degrade are reset by any press that is not noise
TouchResetOnAnyPress(long, short) ==
  (long \/ short) /\ (degradeActive \/ calmHoldActive)

\* calm hold and degrade are reset in the short-press branch only
TouchReset(long, short) == short /\ (degradeActive \/ calmHoldActive)

HandleTouchSensor(reading) ==
  LET pressDuration == Elapsed(ms, touchStartTime)
      release == ~reading /\ touchPressed
      long == release /\ U32Ge(pressDuration, LONG_PRESS_TIME)
      short == release /\ ~long /\ U32Gt(pressDuration, 50)
  IN
  /\ pc = "touch"
  /\ touchPressed' = reading
  /\ touchStartTime' = IF reading /\ ~touchPressed THEN ms ELSE touchStartTime
  /\ lastInteractionTime' = IF short THEN ms ELSE lastInteractionTime
  /\ IF TouchReset(long, short)
       THEN /\ calmHoldActive' = FALSE
            /\ degradeActive' = FALSE
            /\ currentDegradeStage' = 0
            /\ reminderSpoken' = FALSE
       ELSE UNCHANGED <<calmHoldActive, degradeActive, currentDegradeStage,
                        reminderSpoken>>
  \* showDetailedStats() holds the display for 5 s, showQuickStatus() for 3 s
  /\ Elapse(IF long THEN 5000 ELSE IF short THEN 3000 ELSE 0)
  /\ emitted' = IF long THEN {<<"DETAILED_STATS", NUM_BOOKS>>}
                ELSE IF short THEN {<<"QUICK_STATUS", NUM_BOOKS>>} ELSE {}
  /\ out' = Nothing
  /\ pc' = "emotion"
  /\ UNCHANGED <<cfgVars, books, currentBookCount, lastBookCount,
                 allBooksAnnouncedOnce, inBootCalmPeriod, bootCompleteTime,
                 calmHoldStartTime, degradeStartTime, moodVars, lastWsUpdate,
                 wsCount, slot, bookCount, currentTime>>

\* ------------------------------------------------------------------------
\* calculateEmotion()
\* ------------------------------------------------------------------------
\* the degrade phase leaving the mood as it was
StageEmotionKept(stage, e) == e

\* the mood of a degrade stage (the switch on stage)
StageEmotion(stage, e) ==
  CASE stage = 0 -> "EMOTION_CALM"
    [] stage = 1 -> "EMOTION_NEUTRAL"
    [] stage = 2 -> "EMOTION_NEUTRAL"
    [] stage = 3 -> "EMOTION_SAD"
    [] stage = 4 -> "EMOTION_VERY_SAD"
    [] stage = 5 -> "EMOTION_REMINDER"
    [] OTHER     -> e

\* the Normal phase leaving the mood as it was
CountEmotionKept(n, e) == e

\* the mood of a presence count (the switch on currentBookCount)
CountEmotion(n, e) ==
  CASE n = 0 -> "EMOTION_NEUTRAL"
    [] n = 1 -> "EMOTION_CALM"
    [] n = 2 -> "EMOTION_CALM"
    [] n = 3 -> "EMOTION_HAPPY"
    [] n = 4 -> "EMOTION_HAPPY"
    [] n = 5 -> "EMOTION_PROUD"
    [] OTHER -> e

\* the stage kept as a counter that every tick in degrade advances by one
DegradeStageCounted(elapsed) ==
  IF currentDegradeStage < DEGRADE_STAGES THEN currentDegradeStage + 1
  ELSE DEGRADE_STAGES

\* uint8_t stage = elapsed / DEGRADE_INTERVAL, clamped to DEGRADE_STAGES
DegradeStage(elapsed) ==
  LET stage == U32Div(elapsed, DEGRADE_INTERVAL) % 256
  IN IF stage > DEGRADE_STAGES THEN DEGRADE_STAGES ELSE stage

\* boot calm that lasts through elapsed = BOOT_CALM_TIME
BootCalmLastsThrough(elapsed) == U32Le(elapsed, BOOT_CALM_TIME)

\* boot calm goes on: elapsed < BOOT_CALM_TIME
BootCalmLasts(elapsed) == U32Lt(elapsed, BOOT_CALM_TIME)

\* the reminder spoken at every tick of stage 5
SpeakReminderEveryTick(stage) == stage = 5

\* case 5 of the switch: the reminder is spoken if (!reminderSpoken)
SpeakReminder(stage) == stage = 5 /\ ~reminderSpoken

\* what calculateEmotion() called at millis() = time leaves in the phase
\* variables and in currentEmotion, and whether it speaks the reminder
EmotionAt(time) ==
  LET bootCalm == inBootCalmPeriod
                  /\ BootCalmLasts(Elapsed(time, bootCompleteTime))
      holding == calmHoldActive
                 /\ U32Lt(Elapsed(time, calmHoldStartTime), CALM_HOLD_TIME)
      expired == calmHoldActive /\ ~holding
      degrading == degradeActive \/ expired
      start == IF expired THEN time ELSE degradeStartTime
      stage == DegradeStage(Elapsed(time, start))
      kept == [inBootCalmPeriod |-> inBootCalmPeriod,
               calmHoldActive |-> calmHoldActive,
               degradeActive |-> degradeActive,
               degradeStartTime |-> degradeStartTime,
               currentDegradeStage |-> currentDegradeStage,
               reminderSpoken |-> reminderSpoken,
               currentEmotion |-> "EMOTION_CALM",
               reminder |-> FALSE]
  IN
  IF bootCalm THEN kept
  ELSE IF holding THEN [kept EXCEPT !.inBootCalmPeriod = FALSE]
  ELSE IF degrading
    THEN [inBootCalmPeriod |-> FALSE,
          calmHoldActive |-> FALSE,
          degradeActive |-> TRUE,
          degradeStartTime |-> start,
          currentDegradeStage |-> stage,
          reminderSpoken |-> (reminderSpoken \/ stage = 5),
          currentEmotion |-> StageEmotion(stage, currentEmotion),
          reminder |-> SpeakReminder(stage)]
    ELSE [kept EXCEPT !.inBootCalmPeriod = FALSE,
                      !.calmHoldActive = FALSE,
                      !.currentEmotion =
                         CountEmotion(currentBookCount, currentEmotion)]

CalculateEmotion ==
  LET e == EmotionAt(ms) IN
  /\ pc = "emotion"
  /\ inBootCalmPeriod' = e.inBootCalmPeriod
  /\ calmHoldActive' = e.calmHoldActive
  /\ degradeActive' = e.degradeActive
  /\ degradeStartTime' = e.degradeStartTime
  /\ currentDegradeStage' = e.currentDegradeStage
  /\ reminderSpoken' = e.reminderSpoken
  /\ currentEmotion' = e.currentEmotion
  /\ emitted' = IF e.reminder THEN {<<"REMINDER", NUM_BOOKS>>} ELSE {}
  /\ out' = Nothing
  /\ pc' = "tail"
  /\ UNCHANGED <<clockVars, cfgVars, slotVars, bootCompleteTime,
                 calmHoldStartTime, lastEmotion, touchVars, lastWsUpdate,
                 wsCount, slot, bookCount, currentTime, envVars>>

\* ------------------------------------------------------------------------
\* loop() after calculateEmotion(): the emotion change, the animation, the
\* delay; t is the time until the next pass starts
\* ------------------------------------------------------------------------
LoopTail(t) ==
  /\ pc = "tail"
  /\ lastEmotion' = currentEmotion
  /\ Elapse(t)
  /\ emitted' = IF currentEmotion # lastEmotion
                  THEN {<<"EMOTION_CHANGED", NUM_BOOKS>>} ELSE {}
  /\ out' = Nothing
  /\ pc' = "books"
  /\ UNCHANGED <<cfgVars, slotVars, phaseVars, currentEmotion, touchVars,
                 lastWsUpdate, wsCount, slot, bookCount, currentTime>>

\* ------------------------------------------------------------------------
\* Handlers of the web server
\* ------------------------------------------------------------------------
\* onWebSocketEvent, WS_EVT_CONNECT: a client attached and
\* sendWebSocketUpdate() runs in the server's task.  It reads the first cut
\* fields now; with cut short of all the fields, the loop task gets a step in
\* before the others are read (Assembled).
WsConnect(cut) ==
  /\ wifiConnected
  /\ asm = Idle
  /\ wsCount < MaxClients
  /\ wsCount' = wsCount + 1
  /\ asm' = IF cut = Len(PushFields) THEN Idle
            ELSE [kind |-> "push", cut |-> cut, snap |-> PushSnapshot,
                  stepped |-> FALSE]
  /\ emitted' = {}
  /\ UNCHANGED <<clockVars, cfgVars, slotVars, phaseVars, moodVars, touchVars,
                 lastWsUpdate, loopVars, envVars, histVars>>
  /\ out' = IF cut = Len(PushFields) THEN sendWebSocketUpdate' ELSE Nothing

\* onWebSocketEvent, WS_EVT_DISCONNECT: a client left
WsDisconnect ==
  /\ wifiConnected
  /\ asm = Idle
  /\ wsCount > 0
  /\ wsCount' = wsCount - 1
  /\ emitted' = {}
  /\ out' = Nothing
  /\ UNCHANGED <<clockVars, cfgVars, slotVars, phaseVars, moodVars, touchVars,
                 lastWsUpdate, loopVars, asm, envVars, histVars>>

\* GET /api/status: the handler reads the first cut fields now
ApiStatus(cut) ==
  /\ wifiConnected
  /\ asm = Idle
  /\ asm' = IF cut = Len(PullFields) THEN Idle
            ELSE [kind |-> "pull", cut |-> cut, snap |-> PullSnapshot,
                  stepped |-> FALSE]
  /\ out' = IF cut = Len(PullFields)
              THEN [kind |-> "pull", code |-> 200, snap |-> PullSnapshot]
              ELSE Nothing
  /\ emitted' = {}
  /\ UNCHANGED <<clockVars, cfgVars, slotVars, phaseVars, moodVars, touchVars,
                 lastWsUpdate, wsCount, loopVars, envVars, histVars>>

\* the handler that was assembling a snapshot reads its other fields and
\* sends: ws.textAll(json), or request->send(200, ...)
Assembled ==
  /\ asm # Idle
  /\ out' = IF asm.kind = "push"
              THEN [kind |-> "push", clients |-> wsCount,
                    snap |-> Torn(asm.snap, PushSnapshot, asm.cut)]
              ELSE [kind |-> "pull", code |-> 200,
                    snap |-> Torn(asm.snap, PullSnapshot, asm.cut)]
  /\ asm' = Idle
  /\ emitted' = {}
  /\ UNCHANGED <<clockVars, cfgVars, slotVars, phaseVars, moodVars, touchVars,
                 lastWsUpdate, wsCount, loopVars, envVars, histVars>>

\* the body looked at before the RTC: 400 for a body that sets no clock
SyncStatusBodyFirst(body) ==
  IF ~(body.hasEpoch /\ U32Gt(body.epoch, MIN_SYNC_EPOCH)) THEN 400
  ELSE IF ~rtcReady THEN 500 ELSE 200

\* the status the /api/synctime handler answers with: 500 without RTC, 200
\* if the body has "epoch": and uint32_t epoch = toInt() > 1000000000, else 400
SyncStatus(body) ==
  IF ~rtcReady THEN 500
  ELSE IF body.hasEpoch /\ U32Gt(body.epoch, MIN_SYNC_EPOCH) THEN 200
  ELSE 400

\* POST /api/synctime with the given body
ApiSyncTime(body) ==
  LET code == SyncStatus(body) IN
  /\ wifiConnected
  /\ asm = Idle
  /\ IF code = 200
       THEN /\ rtcSec' = body.epoch
            /\ rtcMs' = 0
            /\ out' = [kind |-> "sync", code |-> code, newTime |-> body.epoch]
       ELSE /\ out' = [kind |-> "sync", code |-> code, newTime |-> 0]
            /\ UNCHANGED <<rtcSec, rtcMs>>
  /\ emitted' = {}
  /\ UNCHANGED <<ms, cfgVars, slotVars, phaseVars, moodVars, touchVars,
                 lastWsUpdate, wsCount, loopVars, asm, histVars>>

\* ------------------------------------------------------------------------
\* The environment's part in each step
\* ------------------------------------------------------------------------
Abs(n) == IF n < 0 THEN -n ELSE n

\* the two reads of the pin of the slot being processed: the level of the pin,
\* or a first read that differs from the slot's state and does not last
PinReads(raw1, raw2) ==
  LET bounce == raw2 = books[slot].present /\ raw1 # raw2 IN
  /\ raw2 = (slot < level)
  /\ raw1 # raw2 => (bounce /\ env.bounces > 0)
  /\ env' = IF bounce THEN [env EXCEPT !.bounces = @ - 1] ELSE env
  /\ level' = level

\* the read of the touch pin: a press starts only while presses are left
TouchRead(reading) ==
  LET press == reading /\ ~touchPressed IN
  /\ press => env.presses > 0
  /\ env' = IF press THEN [env EXCEPT !.presses = @ - 1] ELSE env
  /\ level' = level

\* A pass takes LOOP_DELAY from its delay on.  A longer time t stands for a
\* stretch of passes that change nothing: it may be taken only if the last of
\* them, LOOP_DELAY before the end of the stretch, would still leave the
\* phase and the mood as they are now.
Uneventful(t) ==
  \/ t = LOOP_DELAY
  \/ EmotionAt(U32Sub(MillisAfter(t), LOOP_DELAY)) =
       [inBootCalmPeriod |-> inBootCalmPeriod,
        calmHoldActive |-> calmHoldActive,
        degradeActive |-> degradeActive,
        degradeStartTime |-> degradeStartTime,
        currentDegradeStage |-> currentDegradeStage,
        reminderSpoken |-> reminderSpoken,
        currentEmotion |-> currentEmotion,
        reminder |-> FALSE]

\* while the loop sleeps for t, books are put on or taken off: n lie there then
Sleep(t, n) ==
  /\ asm = Idle
  /\ asm' = asm
  /\ env.cycles > 0
  /\ t \in env.times
  /\ Uneventful(t)
  /\ n \in env.levels
  /\ Abs(n - level) <= env.changes
  /\ level' = n
  /\ env' = [env EXCEPT !.cycles = @ - 1, !.changes = @ - Abs(n - level)]

\* a clock-sync request that sets the clock uses up one of those left
SyncSent(body) ==
  LET sets == rtcReady /\ body.hasEpoch /\ U32Gt(body.epoch, MIN_SYNC_EPOCH) IN
  /\ sets => env.syncs > 0
  /\ env' = IF sets THEN [env EXCEPT !.syncs = @ - 1] ELSE env
  /\ level' = level

\* A step of the loop task while a handler is assembling a snapshot: the
\* handler, a few string operations long, is over before a second one.
Meanwhile ==
  /\ asm # Idle => ~asm.stepped
  /\ asm' = IF asm = Idle THEN asm ELSE [asm EXCEPT !.stepped = TRUE]

\* ------------------------------------------------------------------------
\* History, for the statements about what has happened so far
\* ------------------------------------------------------------------------
\* the phase the flags stand for
Phase ==
  IF inBootCalmPeriod THEN "BootCalm"
  ELSE IF calmHoldActive THEN "CalmHold"
  ELSE IF degradeActive THEN "Degrade"
  ELSE "Normal"

\* What an observer of the slot being processed writes down.  A change is
\* accepted after the settle delay of 50 ms: e is the clock reading then.
\* ledger keeps, per slot, the sum of the closed presence intervals, whether
\* one is open, the epoch of the latest event and whether the events came at
\* non-decreasing epochs; seen keeps the changes of the pass with the phase
\* they met.
Observed ==
  LET e == RTCEpochAfter(50)
      placed == emitted' = {<<"PLACED", slot>>}
      removed == emitted' = {<<"REMOVED", slot>>}
  IN
  /\ ledger' =
       IF placed
         THEN [ledger EXCEPT ![slot] =
                 [sum |-> @.sum, open |-> TRUE, latest |-> e,
                  ordered |-> @.ordered /\ U32Le(@.latest, e)]]
       ELSE IF removed
         THEN [ledger EXCEPT ![slot] =
                 [sum |-> IF @.open THEN U32Add(@.sum, U32Sub(e, @.latest))
                          ELSE @.sum,
                  open |-> FALSE, latest |-> e,
                  ordered |-> @.ordered /\ U32Le(@.latest, e)]]
       ELSE ledger
  /\ seen' = IF placed \/ removed
               THEN seen \cup {[slot |-> slot, placed |-> placed,
                                phase |-> Phase, stage |-> currentDegradeStage]}
               ELSE seen

\* since keeps, for each instant the program has stored as a reading of
\* millis() (boot completion, start of the hold, start of degrade, start of
\* the press, last periodic publish), the true time in ms that has gone by
\* since that instant, or MaxInt once that is MaxInt ms or more.  The instants
\* that were never stored read 0: the power-on.  power and powerMs are the
\* true time since power-on, in seconds and ms into the second, which does
\* not start again when the counter of millis() passes 2^32.
Grown(age, d) == IF d < 0 \/ d >= MaxInt - age THEN MaxInt ELSE age + d

Aged ==
  LET d == U32Sub(ms', ms) IN
  since' =
    [boot    |-> Grown(since.boot, d),
     hold    |-> IF calmHoldStartTime' # calmHoldStartTime THEN 0
                 ELSE Grown(since.hold, d),
     degrade |-> IF degradeStartTime' # degradeStartTime THEN 0
                 ELSE Grown(since.degrade, d),
     press   |-> IF touchStartTime' # touchStartTime THEN 0
                 ELSE Grown(since.press, d),
     publish |-> IF lastWsUpdate' # lastWsUpdate THEN 0
                 ELSE Grown(since.publish, d),
     power   |-> since.power + U32Div(d, 1000)
                   + ((since.powerMs + U32Mod(d, 1000)) \div 1000),
     powerMs |-> (since.powerMs + U32Mod(d, 1000)) % 1000]

\* ------------------------------------------------------------------------
\* The device
\* ------------------------------------------------------------------------
Next ==
  \/ \E raw1, raw2 \in BOOLEAN :
       /\ PinReads(raw1, raw2) /\ SlotStep(raw1, raw2)
       /\ Meanwhile /\ Observed /\ Aged /\ UNCHANGED viewVars
  \/ BooksTail /\ Meanwhile /\ UNCHANGED histVars /\ Aged
       /\ UNCHANGED viewVars
  \/ \E reading \in BOOLEAN :
       /\ TouchRead(reading) /\ HandleTouchSensor(reading)
       /\ Meanwhile /\ UNCHANGED histVars /\ Aged /\ UNCHANGED viewVars
  \/ CalculateEmotion /\ Meanwhile /\ UNCHANGED histVars /\ Aged
       /\ UNCHANGED viewVars
  \/ \E t \in CycleTimes, n \in 0 .. NUM_BOOKS :
       /\ Sleep(t, n) /\ LoopTail(t) /\ seen' = {} /\ ledger' = ledger /\ Aged
       /\ UNCHANGED viewVars
  \/ \E cut \in 2 .. Len(PushFields) :
       env.watch /\ WsConnect(cut) /\ Aged /\ UNCHANGED viewVars
  \/ env.watch /\ WsDisconnect /\ Aged /\ UNCHANGED viewVars
  \/ \E cut \in 2 .. Len(PullFields) :
       env.watch /\ ApiStatus(cut) /\ Aged /\ UNCHANGED viewVars
  \/ Assembled /\ Aged /\ UNCHANGED viewVars
  \/ \E body \in SyncBodies :
       SyncSent(body) /\ ApiSyncTime(body) /\ Aged /\ UNCHANGED viewVars

Spec == Init /\ [][Next]_vars

\* ------------------------------------------------------------------------
\* The dashboard beside a device that stands still
\* ------------------------------------------------------------------------
InitHook == Init /\ env = EnvWatch

NextHook ==
  \/ \E ip \in Typed : HandleConnect(ip) /\ UNCHANGED <<deviceVars, chart>>
  \/ StartDemo /\ UNCHANGED <<deviceVars, chart>>
  \/ StopDemo /\ UNCHANGED <<deviceVars, chart>>
  \/ \E k \in DOMAIN hook.sockets :
       SocketOpen(k) /\ UNCHANGED <<deviceVars, chart>>
  \/ \E k \in DOMAIN hook.sockets :
       SocketMessage(k) /\ UNCHANGED <<deviceVars, chart>>
  \/ \E k \in DOMAIN hook.sockets :
       SocketError(k) /\ UNCHANGED <<deviceVars, chart>>
  \/ \E k \in DOMAIN hook.sockets :
       SocketClose(k) /\ UNCHANGED <<deviceVars, chart>>
  \/ \E j \in DOMAIN hook.timeouts :
       Reconnect(j) /\ UNCHANGED <<deviceVars, chart>>
  \/ \E j \in DOMAIN hook.intervals :
       DemoTick(j) /\ UNCHANGED <<deviceVars, chart>>
  \/ Second /\ UNCHANGED <<deviceVars, chart>>

SpecHook == InitHook /\ [][NextHook]_vars

\* ------------------------------------------------------------------------
\* The charts: every timeline and number of points, drawn once
\* ------------------------------------------------------------------------
InitChart ==
  /\ Setup /\ env = EnvWatch /\ hook = Mounted
  /\ \E input \in ChartInputs :
       chart = [data |-> input.data, maxPoints |-> input.maxPoints,
                drawn |-> FALSE, sampled |-> <<>>]

NextChart == Draw /\ UNCHANGED <<deviceVars, hook>>

SpecChart == InitChart /\ [][NextChart]_vars

\* ------------------------------------------------------------------------
\* The statements checked
\* ------------------------------------------------------------------------
Placed(i)  == {<<"PLACED", i>>}
Removed(i) == {<<"REMOVED", i>>}
QuickStatus   == {<<"QUICK_STATUS", NUM_BOOKS>>}
DetailedStats == {<<"DETAILED_STATS", NUM_BOOKS>>}

\* C1: for every slot and in every reachable state, the live total that
\* getBookTotalSeconds returns is cumulativeSeconds plus
\* (now - lastPlacedEpoch) while the slot is tracking, and cumulativeSeconds
\* alone while it is not.  (The claim goes on to successive readings under a
\* clock that never decreases; this is its first half, on every state.)
C1_LiveTotal ==
  \A i \in Slots :
    getBookTotalSeconds(i) =
      U32Add(books[i].cumulativeSeconds,
             IF books[i].tracking
               THEN U32Sub(getRTCEpoch, books[i].lastPlacedEpoch) ELSE 0)

\* C2: when the Placed and Removed events of a slot were accepted at
\* non-decreasing epochs and the clock now reads no less than at the latest
\* of them, the slot's live total is the sum of (removal - placement) over
\* its closed presence intervals, plus (now - placement) of the open one,
\* however many passes of loop() ran in between.
C2_SumOfIntervals ==
  \A i \in Slots :
    (ledger[i].ordered /\ U32Le(ledger[i].latest, getRTCEpoch)) =>
      getBookTotalSeconds(i) =
        U32Add(ledger[i].sum,
               IF ledger[i].open
                 THEN U32Sub(getRTCEpoch, ledger[i].latest) ELSE 0)

\* C3: the step that accepts the removal of a tracking slot adds exactly
\* max(0, now - lastPlacedEpoch) to the slot's cumulativeSeconds, now being
\* the clock reading at the removal, and leaves tracking false and
\* lastPlacedEpoch cleared (0).
C3_RemovalAccrues ==
  [][\A i \in Slots :
       (emitted' = Removed(i) /\ books[i].tracking) =>
         LET now == RTCEpochAfter(50)
             last == books[i].lastPlacedEpoch
             d == IF U32Gt(now, last) THEN U32Sub(now, last) ELSE 0
         IN /\ books'[i].cumulativeSeconds =
                 U32Add(books[i].cumulativeSeconds, d)
            /\ ~books'[i].tracking
            /\ books'[i].lastPlacedEpoch = 0]_vars

\* C4: no step (placement, removal, tick, clock-sync request) makes the
\* cumulativeSeconds of a slot, read as a 32-bit unsigned number, smaller.
C4_CumulativeMonotone ==
  [][\A i \in Slots :
       U32Le(books[i].cumulativeSeconds, books'[i].cumulativeSeconds)]_vars

\* C5: what getRTCEpoch returns never decreases from one read to the next,
\* whatever happens in between, a clock-sync request to an earlier time
\* included.
C5_ClockMonotone == [][U32Le(getRTCEpoch, getRTCEpoch')]_vars

\* C6: in every reachable state at most one of inBootCalmPeriod,
\* calmHoldActive and degradeActive is true, and every snapshot pushed to
\* the clients carries at most one true value among bootCalm, calmHold and
\* degradeActive.
AtMostOne(a, b, c) == ~(a /\ b) /\ ~(a /\ c) /\ ~(b /\ c)

C6_OnePhase ==
  /\ AtMostOne(inBootCalmPeriod, calmHoldActive, degradeActive)
  /\ out.kind = "push" =>
       AtMostOne(out.snap.bootCalm, out.snap.calmHold, out.snap.degradeActive)

\* C7: when updateBookStates() has accepted a change of presence (Placed or
\* Removed) that met the phase BootCalm, CalmHold or Degrade, at whatever
\* stage, it returns with the phase reset: boot calm and degrade off, stage 0,
\* reminder flag cleared, and calm hold off too unless the change raised the
\* number of books present to 5, which enters CalmHold.
C7_ChangeResetsPhase ==
  (pc = "touch" /\ \E r \in seen : r.phase # "Normal") =>
    /\ ~inBootCalmPeriod
    /\ ~degradeActive
    /\ currentDegradeStage = 0
    /\ ~reminderSpoken
    /\ calmHoldActive =
         (currentBookCount = NUM_BOOKS /\ lastBookCount < NUM_BOOKS)

\* a book was taken off during Degrade, stage 3, and the phase is Normal
C7_Witness ==
  /\ pc = "touch"
  /\ \E r \in seen : r.phase = "Degrade" /\ r.stage = 3 /\ ~r.placed
  /\ Phase = "Normal"
  /\ currentDegradeStage = 0

\* the step of handleTouchSensor() in which the touch pin is found released
Release ==
  pc = "touch" /\ pc' = "emotion" /\ touchPressed /\ ~touchPressed'

\* the duration it measures
PressDuration == U32Sub(ms, touchStartTime)

\* C8: a short press (50 ms <= duration < 2000 ms, such as 1800 ms) released
\* while calm hold or degrade is active emits the quick status and resets the
\* phase to Normal: calmHoldActive and degradeActive false, stage 0, reminder
\* flag cleared.
C8_ShortPressResets ==
  [][(/\ Release
      /\ U32Ge(PressDuration, 50)
      /\ U32Lt(PressDuration, LONG_PRESS_TIME)
      /\ (calmHoldActive \/ degradeActive)) =>
       /\ emitted' = QuickStatus
       /\ ~calmHoldActive'
       /\ ~degradeActive'
       /\ currentDegradeStage' = 0
       /\ ~reminderSpoken']_vars

\* C9: a long press (duration >= 2000 ms) emits the detailed stats and
\* leaves inBootCalmPeriod, calmHoldActive, degradeActive, calmHoldStartTime,
\* degradeStartTime and reminderSpoken as they were.
C9_LongPressKeepsPhase ==
  [][(Release /\ U32Ge(PressDuration, LONG_PRESS_TIME)) =>
       /\ emitted' = DetailedStats
       /\ UNCHANGED <<inBootCalmPeriod, calmHoldActive, degradeActive,
                      calmHoldStartTime, degradeStartTime,
                      reminderSpoken>>]_vars

\* a press of 2500 ms was released during Degrade, stage 2: the detailed
\* stats were shown (for 5 s) and the phase is still Degrade, stage 2
C9_Witness ==
  /\ emitted = DetailedStats
  /\ PressDuration = 2500 + 5000
  /\ degradeActive
  /\ currentDegradeStage = 2

\* C10: on release, a press of duration d is noise if d < 50 ms (no intent,
\* no change of state but the pressed flag), a short press if
\* 50 ms <= d < 2000 ms (quick status), a long press if d >= 2000 ms (detailed
\* stats); so d = 50 ms is a short press and d = 2000 ms a long one.
C10_Classification ==
  [][Release =>
       /\ U32Lt(PressDuration, 50) =>
            /\ emitted' = {}
            /\ UNCHANGED <<clockVars, slotVars, phaseVars, moodVars,
                           touchStartTime>>
       /\ (U32Ge(PressDuration, 50) /\ U32Lt(PressDuration, LONG_PRESS_TIME)) =>
            emitted' = QuickStatus
       /\ U32Ge(PressDuration, LONG_PRESS_TIME) => emitted' = DetailedStats]_vars

\* a tick: the step that runs calculateEmotion()
Tick == pc = "emotion" /\ pc' = "tail"

\* the step of updateBookStates() that accepts a change of some slot
ChangeAccepted == \E i \in Slots : emitted' = Placed(i) \/ emitted' = Removed(i)

\* the number of slots with present = true
PresenceCount == Cardinality({i \in Slots : books[i].present})

\* the mood of the Normal phase, by the presence count
CountMood(n) ==
  IF n = 0 THEN "EMOTION_NEUTRAL"
  ELSE IF n \in {1, 2} THEN "EMOTION_CALM"
  ELSE IF n \in {3, 4} THEN "EMOTION_HAPPY"
  ELSE "EMOTION_PROUD"

\* the time since boot completion, as calculateEmotion() measures it
SinceBoot == U32Sub(ms, bootCompleteTime)

\* C11: boot calm ends only by a tick at or after BOOT_CALM_TIME (300000 ms
\* after boot completion) or by a change of a slot; while it lasts, a tick
\* before BOOT_CALM_TIME keeps it and yields the mood Calm; the first tick at
\* or after BOOT_CALM_TIME (exactly at it included) ends it, leaves the phase
\* Normal and yields the mood of the presence count.
C11_BootCalm ==
  [][/\ (Tick /\ inBootCalmPeriod /\ U32Lt(SinceBoot, BOOT_CALM_TIME)) =>
          (inBootCalmPeriod' /\ currentEmotion' = "EMOTION_CALM")
     /\ (Tick /\ inBootCalmPeriod /\ U32Ge(SinceBoot, BOOT_CALM_TIME)) =>
          (Phase' = "Normal" /\ currentEmotion' = CountMood(PresenceCount'))
     /\ (inBootCalmPeriod /\ ~inBootCalmPeriod') =>
          ((Tick /\ U32Ge(SinceBoot, BOOT_CALM_TIME)) \/ ChangeAccepted)]_vars

\* no slot has changed, every tick so far left Calm, and the tick exactly
\* BOOT_CALM_TIME after boot completion ended boot calm: Normal, Neutral
C11_Witness ==
  /\ pc = "tail"
  /\ SinceBoot = BOOT_CALM_TIME
  /\ \A i \in Slots : ~books[i].wasPresent
  /\ lastEmotion = "EMOTION_CALM"
  /\ Phase = "Normal"
  /\ currentEmotion = "EMOTION_NEUTRAL"

\* C12: after a tick that leaves the phase Normal, the mood is the one the
\* number of present slots gives: 0 Neutral, 1 or 2 Calm, 3 or 4 Happy,
\* 5 Proud; and that number is in 0..5.
C12_NormalMood ==
  [][(Tick /\ Phase' = "Normal") =>
       /\ PresenceCount' \in 0 .. NUM_BOOKS
       /\ currentEmotion' = CountMood(PresenceCount')]_vars

\* a tick in the Normal phase with three books present left Happy
C12_Witness ==
  /\ pc = "tail"
  /\ Phase = "Normal"
  /\ PresenceCount = 3
  /\ currentEmotion = "EMOTION_HAPPY"

AllPlacedEvent == {<<"ALL_PLACED", NUM_BOOKS>>}

\* the step of updateBookStates() that assigns the counts
Counted == pc = "count" /\ pc' = "touch"

\* C13: the pass that counts five books after a pass that counted fewer
\* fires the all-placed event, once, and leaves the phase CalmHold with
\* calmHoldStartTime the time of the entry; a pass that counts five after a
\* pass that counted five does not fire it, nor does any other step: so it
\* fires again only after the count has been below five.
C13_AllPlacedOnce ==
  [][/\ Counted =>
          ((emitted' = AllPlacedEvent) <=>
             (currentBookCount' = 5 /\ currentBookCount < 5))
     /\ emitted' = AllPlacedEvent =>
          /\ Counted
          /\ PresenceCount' = 5
          /\ Phase' = "CalmHold"
          /\ calmHoldStartTime' = ms']_vars

\* the second ascent to five of a run: a book that had been present for a
\* while was taken off and put on again, and the event has fired again
C13_Witness ==
  /\ emitted = AllPlacedEvent
  /\ \E i \in Slots : U32Gt(books[i].cumulativeSeconds, 0)
  /\ Phase = "CalmHold"
  /\ calmHoldStartTime = ms

\* the time since the entry into CalmHold, while no reset has ended the
\* session it began (calm hold or degrade is active)
SinceHold == U32Sub(ms, calmHoldStartTime)

\* C14: with all five slots present and no change or short press since the
\* entry into CalmHold, a tick less than CALM_HOLD_TIME after the entry
\* leaves CalmHold and the mood Calm; a tick at or after it leaves Degrade,
\* at stage 0 if it is the tick that ends the hold; and a tick at or after
\* CALM_HOLD_TIME + 5 * DEGRADE_INTERVAL leaves Degrade at stage 5, the mood
\* Reminder and the reminder spoken, however the ticks before it were spaced.
C14_HoldThenDegrade ==
  [][(Tick /\ (calmHoldActive \/ degradeActive)) =>
       /\ U32Lt(SinceHold, CALM_HOLD_TIME) =>
            (Phase' = "CalmHold" /\ currentEmotion' = "EMOTION_CALM")
       /\ U32Ge(SinceHold, CALM_HOLD_TIME) => Phase' = "Degrade"
       /\ (calmHoldActive /\ ~calmHoldActive') => currentDegradeStage' = 0
       /\ U32Ge(SinceHold, CALM_HOLD_TIME + DEGRADE_STAGES * DEGRADE_INTERVAL) =>
            /\ Phase' = "Degrade"
            /\ currentDegradeStage' = DEGRADE_STAGES
            /\ currentEmotion' = "EMOTION_REMINDER"
            /\ reminderSpoken']_vars

\* min(DEGRADE_STAGES, floor(elapsed / DEGRADE_INTERVAL))
StageOf(elapsed) ==
  IF U32Ge(elapsed, DEGRADE_STAGES * DEGRADE_INTERVAL) THEN DEGRADE_STAGES
  ELSE U32Div(elapsed, DEGRADE_INTERVAL)

\* C15: a tick that leaves the phase Degrade leaves degradeStage =
\* min(5, floor(elapsed / DEGRADE_INTERVAL)), elapsed being the time since
\* the entry into Degrade; and from one tick in Degrade to the next the stage
\* does not decrease (so it stays 5 once elapsed has reached
\* 5 * DEGRADE_INTERVAL).
C15_StageOfElapsed ==
  [][(Tick /\ degradeActive') =>
       /\ currentDegradeStage' = StageOf(U32Sub(ms, degradeStartTime'))
       /\ degradeActive => currentDegradeStage' >= currentDegradeStage]_vars

ReminderEvent == {<<"REMINDER", NUM_BOOKS>>}

\* C16: the reminder fires only at a tick that leaves stage 5 and finds the
\* reminder not yet spoken, and it fires at every such tick; once it has
\* fired it counts as spoken, and only a reset (a change of a slot or a
\* short press) makes it count as not spoken again.  So it fires once
\* between two resets, at the first tick that finds stage 5.
C16_ReminderOnce ==
  [][/\ emitted' = ReminderEvent =>
          /\ Tick
          /\ degradeActive' /\ currentDegradeStage' = DEGRADE_STAGES
          /\ ~reminderSpoken /\ reminderSpoken'
     /\ (Tick /\ degradeActive' /\ currentDegradeStage' = DEGRADE_STAGES
         /\ ~reminderSpoken) => emitted' = ReminderEvent
     /\ (reminderSpoken /\ ~reminderSpoken') =>
          (ChangeAccepted \/ emitted' = QuickStatus)]_vars

\* a later tick at stage 5: the reminder was spoken at an earlier tick (the
\* pass before ended with the mood Reminder) and is not spoken again
C16_Witness ==
  /\ pc = "tail"
  /\ degradeActive /\ currentDegradeStage = DEGRADE_STAGES
  /\ lastEmotion = "EMOTION_REMINDER"
  /\ reminderSpoken
  /\ emitted = {}

\* what the fields of a snapshot read from the state (all of them but
\* totalStudySeconds, the sum over books)
Readings ==
  [status |-> "live", uptime |-> U32Div(ms, 1000), emotion |-> getEmotionName,
   booksPlaced |-> currentBookCount, time |-> TimeField, books |-> BooksField,
   degradeStage |-> currentDegradeStage, bootCalm |-> inBootCalmPeriod,
   calmHold |-> calmHoldActive, degradeActive |-> degradeActive]

\* C17: the periodic publish of a pass that finds no client attached hands
\* nothing to the network; what is pushed is pushed to the clients attached
\* at that moment (at least one), by the periodic publish, by a connect or by
\* the connect's handler finishing; a snapshot is begun by a connect from the
\* state at the connect; and every field of a pushed snapshot was read from
\* the state at the push or, in a snapshot begun at a connect, from the state
\* at the connect: nothing is kept from a time without client.
C17_NoSubscriberNoPublish ==
  [][/\ (Counted /\ wsCount = 0) => out' = Nothing
     /\ (asm = Idle /\ asm' # Idle /\ asm'.kind = "push") =>
          (wsCount' = wsCount + 1 /\ asm'.snap = PushSnapshot)
     /\ out'.kind = "push" =>
          /\ wsCount' > 0
          /\ out'.clients = wsCount'
          /\ Counted \/ wsCount' = wsCount + 1 \/ (asm # Idle /\ asm' = Idle)
          /\ \A f \in DOMAIN Readings :
               \/ out'.snap[f] = Readings'[f]
               \/ asm # Idle /\ asm.kind = "push" /\ out'.snap[f] = asm.snap[f]]_vars

\* a periodic publish came due with WiFi up and no client attached: the
\* time of the publish was recorded and nothing was sent
C17_Witness ==
  /\ pc = "touch"
  /\ env.watch /\ wifiConnected
  /\ wsCount = 0
  /\ lastWsUpdate = ms
  /\ out = Nothing

\* the fields of the snapshot's wire schema
SchemaFields ==
  {"status", "uptime", "emotion", "booksPlaced", "time", "books",
   "totalStudySeconds", "degradeStage", "bootCalm", "calmHold",
   "degradeActive"}

\* C18: the snapshot with which GET /api/status answers, read from one state
\* of the device, is the snapshot a push would carry from that state: the
\* same eleven fields with equal values; and the answer is 200 whatever the
\* number of attached clients.
C18_PullEqualsPush ==
  [][(out'.kind = "pull" /\ asm = Idle) =>
       /\ out'.code = 200
       /\ DOMAIN PushSnapshot = SchemaFields
       /\ DOMAIN out'.snap = SchemaFields
       /\ out'.snap = PushSnapshot]_vars

\* C19: every snapshot handed to the network (periodic push, push on
\* connect, answer to a pull) is one in which booksPlaced is the number of
\* entries of books with present = true, as in a snapshot assembled without
\* a step of loop() falling into it or into the middle of a pass.
C19_AtomicSnapshot ==
  out.kind \in {"push", "pull"} =>
    out.snap.booksPlaced =
      Cardinality({i \in Slots : out.snap.books[i].present})

\* a client attaches: the step of the connect handler
Attach == wsCount' = wsCount + 1

\* C20: a periodic broadcast goes to all the attached clients and comes no
\* less than WS_UPDATE_INTERVAL (2000 ms) after the periodic publish before
\* it; a pass that finds a client attached and the interval elapsed
\* broadcasts; a connect handler that runs in one go sends one snapshot at
\* once; and a snapshot sent outside the periodic broadcast goes to the one
\* client that has just attached, not to those attached before.
C20_Broadcasts ==
  [][/\ (Counted /\ out'.kind = "push") =>
          /\ out'.clients = wsCount'
          /\ U32Ge(U32Sub(ms', lastWsUpdate), WS_UPDATE_INTERVAL)
     /\ (Counted /\ wifiConnected /\ wsCount > 0
         /\ U32Ge(U32Sub(ms', lastWsUpdate), WS_UPDATE_INTERVAL)) =>
          out'.kind = "push"
     /\ (Attach /\ asm' = Idle) => out'.kind = "push"
     /\ (out'.kind = "push" /\ ~Counted) => out'.clients = 1]_vars

\* a clock-sync request that is malformed or out of range: no epoch field, or
\* an epoch text that reads (as the long toInt() returns: 0 for text that is
\* no number) negative, zero or not above 1000000000
Rejectable(body) == ~body.hasEpoch \/ body.epoch <= MIN_SYNC_EPOCH

\* the clock, the slots and the phase are as they were
Untouched == UNCHANGED <<clockVars, slotVars, phaseVars, moodVars>>

\* C21: with an RTC present, a clock-sync request whose body has no epoch
\* field, or whose epoch is no number, negative or not greater than
\* 1000000000, is answered 400, and the clock, the slots and the phase are
\* left as they were.
C21_BadSyncRejected ==
  [][\A body \in SyncBodies :
       (ApiSyncTime(body) /\ rtcReady /\ Rejectable(body)) =>
         (out'.code = 400 /\ Untouched)]_vars

\* C22: without an RTC a clock-sync request is answered 500, which is not the
\* 400 of an invalid payload, whatever its body; the clock, the slots and the
\* phase are left as they were.
C22_NoRtcError ==
  [][\A body \in SyncBodies :
       (ApiSyncTime(body) /\ ~rtcReady) =>
         (out'.code = 500 /\ out'.code # 400 /\ Untouched)]_vars

\* a sync request was answered 500 on a device without RTC that has a book
\* placed
C22_Witness ==
  /\ ~rtcReady
  /\ out.kind = "sync"
  /\ out.code = 500
  /\ \E i \in Slots : books[i].present

\* C23: when a tracking slot is removed at an epoch that is not later than
\* its placement epoch (the clock was set back in between), the removal adds
\* nothing to the slot's cumulative seconds, and the slot ends not tracking
\* with its placement epoch cleared.
C23_RegressionAddsZero ==
  [][\A i \in Slots :
       ( /\ emitted' = Removed(i)
         /\ books[i].tracking
         /\ U32Gt(books[i].lastPlacedEpoch, 0)
         /\ U32Le(RTCEpochAfter(50), books[i].lastPlacedEpoch) ) =>
       ( /\ books'[i].cumulativeSeconds = books[i].cumulativeSeconds
         /\ ~books'[i].tracking
         /\ books'[i].lastPlacedEpoch = 0 )]_vars

\* a slot placed at the setup clock was removed after the clock had been set
\* back: nothing was added to it
C23_Witness ==
  /\ rtcReady
  /\ emitted = Removed(0)
  /\ ~ledger[0].ordered
  /\ U32Lt(getRTCEpoch, SetupEpoch)
  /\ books[0].cumulativeSeconds = 0
  /\ ~books[0].tracking
  /\ books[0].lastPlacedEpoch = 0

\* C24: a short press (50 ms or more, less than 2000 ms) released while the
\* phase is BootCalm ends BootCalm: the phase is Normal after the release.
C24_ShortPressEndsBootCalm ==
  [][( /\ Release
       /\ Phase = "BootCalm"
       /\ U32Ge(PressDuration, 50)
       /\ U32Lt(PressDuration, LONG_PRESS_TIME) ) => Phase' = "Normal"]_vars

\* the name a snapshot gives to a mood
MoodName(e) ==
  CASE e = "EMOTION_NEUTRAL"    -> "Neutral"
    [] e = "EMOTION_CALM"       -> "Calm"
    [] e = "EMOTION_HAPPY"      -> "Happy"
    [] e = "EMOTION_PROUD"      -> "Proud"
    [] e = "EMOTION_VERY_PROUD" -> "Very Proud"
    [] e = "EMOTION_SAD"        -> "Sad"
    [] e = "EMOTION_VERY_SAD"   -> "Very Sad"
    [] e = "EMOTION_REMINDER"   -> "Reminder"

\* the mood of a degrade stage, by the stage table
StageMood(stage) ==
  CASE stage = 0      -> "EMOTION_CALM"
    [] stage \in {1, 2} -> "EMOTION_NEUTRAL"
    [] stage = 3      -> "EMOTION_SAD"
    [] stage = 4      -> "EMOTION_VERY_SAD"
    [] OTHER          -> "EMOTION_REMINDER"

\* the mood that the phase fields and the presence count of a snapshot
\* determine
SnapshotMood(snap) ==
  IF snap.bootCalm \/ snap.calmHold THEN "EMOTION_CALM"
  ELSE IF snap.degradeActive THEN StageMood(snap.degradeStage)
  ELSE CountMood(snap.booksPlaced)

\* C25: in every pushed snapshot (the one kind that carries all the phase
\* fields) the emotion field is the mood that the phase fields and
\* booksPlaced of that same snapshot determine.
C25_MoodOfSnapshot ==
  out.kind = "push" => out.snap.emotion = MoodName(SnapshotMood(out.snap))

\* C26: a tick that leaves the phase Degrade leaves a stage from 0 to 5 and
\* the mood of that stage by the stage table: Calm, Neutral, Neutral, Sad,
\* Very Sad, Reminder.
C26_StageTable ==
  [][(Tick /\ degradeActive') =>
       ( /\ currentDegradeStage' \in 0 .. DEGRADE_STAGES
         /\ currentEmotion' = StageMood(currentDegradeStage')
         /\ MoodName(currentEmotion') =
              <<"Calm", "Neutral", "Neutral", "Sad", "Very Sad",
                "Reminder">>[currentDegradeStage' + 1] )]_vars

\* a tick has left the phase Degrade at stage 4 with the mood Very Sad
C26_Witness ==
  /\ pc = "tail"
  /\ degradeActive
  /\ currentDegradeStage = 4
  /\ currentEmotion = "EMOTION_VERY_SAD"

\* what a second call of calculateEmotion() at the same value of millis()
\* would leave, in the state the first call has left
SecondTick == EmotionAt(ms)'

\* C27: a second emotion tick at the same time value and with the same
\* presence count leaves the phase flags, the entry times, the degrade
\* stage, the reminder flag and the mood as the first tick left them, and
\* speaks no reminder.
C27_TickIdempotent ==
  [][Tick =>
       ( /\ ms' = ms
         /\ currentBookCount' = currentBookCount
         /\ SecondTick.inBootCalmPeriod = inBootCalmPeriod'
         /\ SecondTick.calmHoldActive = calmHoldActive'
         /\ SecondTick.degradeActive = degradeActive'
         /\ SecondTick.degradeStartTime = degradeStartTime'
         /\ SecondTick.currentDegradeStage = currentDegradeStage'
         /\ SecondTick.reminderSpoken = reminderSpoken'
         /\ SecondTick.currentEmotion = currentEmotion'
         /\ ~SecondTick.reminder )]_vars

\* a tick has just spoken the reminder: a second one at the same time meets
\* the reminder flag set
C27_Witness ==
  /\ pc = "tail"
  /\ emitted = {<<"REMINDER", NUM_BOOKS>>}
  /\ reminderSpoken
  /\ currentDegradeStage = DEGRADE_STAGES

\* C28: the phase BootCalm is never entered again once it was left; the
\* phase CalmHold is entered only by the step that emits the all-placed
\* event; and the phase Degrade is left only for Normal, by the step of an
\* accepted change of presence or of a short press (a reset).
C28_PhaseOrder ==
  [][ /\ (Phase # "BootCalm" => Phase' # "BootCalm")
      /\ ((Phase # "CalmHold" /\ Phase' = "CalmHold") =>
            emitted' = AllPlacedEvent)
      /\ ((Phase = "Degrade" /\ Phase' # "Degrade") =>
            ( /\ Phase' = "Normal"
              /\ ChangeAccepted \/ emitted' = QuickStatus )) ]_vars

\* degrade was entered with all five books there and a short press has
\* reset it to Normal
C28_Witness ==
  /\ emitted = QuickStatus
  /\ Phase = "Normal"
  /\ PresenceCount = NUM_BOOKS
  /\ allBooksAnnouncedOnce
  /\ U32Ge(U32Sub(ms, calmHoldStartTime), CALM_HOLD_TIME)
  /\ U32Gt(degradeStartTime, calmHoldStartTime)

\* the slot being processed was read as raw1 and, if that differed from its
\* present flag, read again as raw2 after the settle delay
Read(raw1, raw2) == PinReads(raw1, raw2) /\ SlotStep(raw1, raw2)

\* C29: a raw read that differs from the slot's debounced state while the
\* re-read after the settle delay equals it is rejected: no change event, no
\* field of a slot, no phase variable and no interaction timestamp changes.
\* A change is accepted only when the re-read still shows the new state.
\* (The debounced state of a slot is its wasPresent flag, which the present
\* flag equals at every read.)
C29_RejectedReadNoEffect ==
  [][\A raw1, raw2 \in BOOLEAN :
       Read(raw1, raw2) =>
         /\ books[slot].present = books[slot].wasPresent
         /\ (raw1 # books[slot].wasPresent /\ raw2 = books[slot].wasPresent) =>
              ( /\ emitted' = {}
                /\ books' = books
                /\ UNCHANGED <<phaseVars, lastInteractionTime,
                               allBooksAnnouncedOnce>> )
         /\ ChangeAccepted => raw2 # books[slot].wasPresent]_vars

\* a read of a tracking slot was rejected: the pass went on to the next slot
\* 50 ms later with no event and the slot still tracking
C29_Witness ==
  /\ env.bounces < MaxBounces
  /\ pc = "books"
  /\ slot = 1
  /\ emitted = {}
  /\ books[0].tracking
  /\ U32Sub(ms, currentTime) = 50

\* the true time since a stored instant is known
Known(age) == age < MaxInt

\* C30: every elapsed time that the program computes on the 32-bit counter
\* of millis() (since boot completion, since the start of the hold, since
\* the start of degrade, since the start of the press, since the last
\* periodic publish) is the true time gone by since that instant, also when
\* the counter has passed 2^32 in between, as long as the true time is known
\* to be less than 2^31 ms; so a tick ends boot calm, or the hold, exactly
\* when the true time since its start has reached its configured duration, a
\* released press is long exactly when it truly lasted LONG_PRESS_TIME, and
\* a pass publishes exactly when WS_UPDATE_INTERVAL has truly gone by.
C30_WrapSafeElapsed ==
  [][ /\ Known(since.boot) => Elapsed(ms, bootCompleteTime) = since.boot
      /\ Known(since.hold) => Elapsed(ms, calmHoldStartTime) = since.hold
      /\ Known(since.degrade) => Elapsed(ms, degradeStartTime) = since.degrade
      /\ Known(since.press) => Elapsed(ms, touchStartTime) = since.press
      /\ Known(since.publish) => Elapsed(ms, lastWsUpdate) = since.publish
      /\ (Tick /\ inBootCalmPeriod /\ Known(since.boot)) =>
           (inBootCalmPeriod' <=> since.boot < BOOT_CALM_TIME)
      /\ (Tick /\ calmHoldActive /\ Known(since.hold)) =>
           /\ calmHoldActive' <=> since.hold < CALM_HOLD_TIME
           /\ degradeActive' <=> since.hold >= CALM_HOLD_TIME
      /\ (Release /\ Known(since.press)) =>
           (emitted' = DetailedStats <=> since.press >= LONG_PRESS_TIME)
      /\ (Counted /\ wifiConnected
             /\ Known(Grown(since.publish, U32Sub(ms', ms)))) =>
           (lastWsUpdate' = ms' <=>
              Grown(since.publish, U32Sub(ms', ms)) >= WS_UPDATE_INTERVAL) ]_vars

\* a hold that started 1000 ms before the counter passed 2^32 has been ended
\* by a tick exactly CALM_HOLD_TIME after its start
C30_Witness ==
  /\ pc = "tail"
  /\ calmHoldStartTime = U32Sub(0, 1000)
  /\ ms = CALM_HOLD_TIME - 1000
  /\ degradeActive
  /\ degradeStartTime = ms
  /\ since.hold = CALM_HOLD_TIME

\* C31: without an RTC the clock reads the time since power-on in seconds;
\* a snapshot gives the time as "N/A" exactly when there is no RTC; and a
\* removal adds to the slot the seconds that the clock has counted since the
\* placement.
C31_FallbackClock ==
  [][ /\ ~rtcReady => getRTCEpoch = since.power
      /\ out.kind \in {"push", "pull"} => (out.snap.time.na <=> ~rtcReady)
      /\ \A i \in Slots :
           (~rtcReady /\ emitted' = Removed(i) /\ ledger[i].open) =>
             books'[i].cumulativeSeconds =
               books[i].cumulativeSeconds
                 + (RTCEpochAfter(50) - ledger[i].latest) ]_vars

\* a clock-sync request whose epoch is a uint32_t above 1000000000
ValidEpoch(body) ==
  body.hasEpoch /\ ~body.sent.neg /\ U32Gt(body.sent.mag, MIN_SYNC_EPOCH)

\* C32: with an RTC present, a clock-sync request with an epoch greater than
\* 1000000000 is answered 200 and sets the clock to that epoch; the slots
\* (present, tracking, lastPlacedEpoch, cumulativeSeconds and the rest), the
\* counts and every variable of the emotion phase are as before the request.
C32_SyncSetsClockOnly ==
  [][\A body \in SyncBodies :
       (ApiSyncTime(body) /\ rtcReady /\ ValidEpoch(body)) =>
         ( /\ out'.code = 200
           /\ getRTCEpoch' = body.sent.mag
           /\ UNCHANGED <<slotVars, phaseVars, moodVars, touchVars,
                          lastWsUpdate, wsCount, loopVars, ms>> )]_vars

\* the sum, as a uint32_t, of the totalSeconds of the five entries of books
\* in a snapshot
SumOfEntries(snap) ==
  U32Add(U32Add(U32Add(U32Add(snap.books[0].totalSeconds,
                              snap.books[1].totalSeconds),
                       snap.books[2].totalSeconds),
                snap.books[3].totalSeconds),
         snap.books[4].totalSeconds)

\* C33: in every snapshot handed to the network, pushed or pulled,
\* totalStudySeconds is the sum of the totalSeconds of the five entries of
\* books of that same snapshot.
C33_TotalIsSumOfEntries ==
  out.kind \in {"push", "pull"} =>
    out.snap.totalStudySeconds = SumOfEntries(out.snap)

\* the end of a cycle of loop(): calculateEmotion() has returned and the
\* delay is about to start
CycleEnd == pc = "tail"

\* C34: at the end of every cycle of loop(), if calmHoldActive or
\* degradeActive is true then currentBookCount is 5 and all five slots are
\* present.
C34_HoldNeedsFive ==
  (CycleEnd /\ (calmHoldActive \/ degradeActive)) =>
    (currentBookCount = NUM_BOOKS /\ PresenceCount = NUM_BOOKS)

\* a cycle ends in degrade with all five books there
C34_Witness ==
  /\ CycleEnd
  /\ degradeActive
  /\ currentDegradeStage = 2
  /\ currentBookCount = NUM_BOOKS
  /\ PresenceCount = NUM_BOOKS

\* all five books lie there, were counted and were announced, and the phase
\* is Normal: the state a short press leaves that has reset the hold or
\* degrade (five books newly counted start the hold instead)
ResetWithFive ==
  /\ Phase = "Normal"
  /\ currentBookCount = NUM_BOOKS
  /\ PresenceCount = NUM_BOOKS
  /\ allBooksAnnouncedOnce

\* C35: a short press that resets the hold or degrade with all five books in
\* place leaves the phase Normal with five counted; from then on, as long as
\* no change of a slot is accepted, every step leaves the phase Normal and
\* five counted, no step starts the celebration or speaks the reminder, and
\* every tick leaves the mood Proud.
C35_StaysNormalAfterReset ==
  [][ /\ ( /\ emitted' = QuickStatus
           /\ calmHoldActive \/ degradeActive
           /\ PresenceCount = NUM_BOOKS /\ currentBookCount = NUM_BOOKS ) =>
            ResetWithFive'
      /\ (ResetWithFive /\ ~ChangeAccepted) =>
            ( /\ ResetWithFive'
              /\ emitted' # AllPlacedEvent
              /\ emitted' # ReminderEvent
              /\ Tick => currentEmotion' = "EMOTION_PROUD" ) ]_vars

\* a cycle after the one of the short press ends Normal and Proud with all
\* five books there, long after the hold would have expired
C35_Witness ==
  /\ pc = "tail"
  /\ ResetWithFive
  /\ currentEmotion = "EMOTION_PROUD"
  /\ lastEmotion = "EMOTION_PROUD"
  /\ U32Ge(U32Sub(ms, calmHoldStartTime), CALM_HOLD_TIME)

\* C36: whenever a WebSocket that had been open closes, a reconnect timeout
\* of 3 seconds is set, and when that timeout runs a new socket to the address
\* of the closed one is made; for the first connection made through the
\* connect panel as for every later one.
C36_ReconnectsSameAddress ==
  [][/\ \A k \in DOMAIN hook.sockets :
          (SocketClose(k) /\ hook.sockets[k].opened)
            => /\ Len(hook'.timeouts) = Len(hook.timeouts) + 1
               /\ hook'.timeouts[Len(hook'.timeouts)]
                    = [left |-> RECONNECT_DELAY, from |-> k]
     /\ \A j \in DOMAIN hook.timeouts :
          (Reconnect(j) /\ hook.sockets[hook.timeouts[j].from].opened)
            => /\ Len(hook'.sockets) = Len(hook.sockets) + 1
               /\ hook'.sockets[Len(hook'.sockets)].state = "connecting"
               /\ hook'.sockets[Len(hook'.sockets)].url
                    = hook.sockets[hook.timeouts[j].from].url]_vars

\* C37: demo mode and a live connection exclude each other in every state:
\* while demoMode is true no socket is open and no reconnect timeout is
\* pending, and status is set by demo ticks only; while a socket is open no
\* demo interval runs; and there is never more than one demo interval.
OpenSockets == {k \in DOMAIN hook.sockets : hook.sockets[k].state = "open"}

C37_DemoExcludesLive ==
  [][/\ hook'.demoMode => OpenSockets' = {} /\ hook'.timeouts = <<>>
     /\ hook.demoMode /\ hook'.demoMode => hook'.status = "demo"
     /\ OpenSockets' # {} => hook'.intervals = <<>>
     /\ Len(hook'.intervals) <= 1]_vars

\* C38: at the end of every pass of loop(), for every slot, present,
\* wasPresent and tracking are equal and lastPlacedEpoch is 0 unless the slot is
\* tracking; so the slot accrues time (a second more on the clock is a second
\* more in its total) exactly while it is reported present.
Accruing(i) ==
  BookTotalAt(books[i], U32Add(getRTCEpoch, 1))
    = U32Add(BookTotalAt(books[i], getRTCEpoch), 1)

C38_AccruesWhilePresent ==
  CycleEnd =>
    \A i \in Slots :
      /\ books[i].present = books[i].wasPresent
      /\ books[i].wasPresent = books[i].tracking
      /\ ~books[i].tracking => books[i].lastPlacedEpoch = 0
      /\ books[i].present <=> Accruing(i)

\* C39: sampleData(data, maxPoints) returns data itself when data has at most
\* maxPoints entries; otherwise it returns entries of data in their order, the
\* first and the last among them, and at most maxPoints of them; for every
\* length, the full timeline of 200 entries with 50 points included.
C39_SampleWithinMaxPoints ==
  chart.drawn =>
    IF Len(chart.data) <= chart.maxPoints
    THEN chart.sampled = chart.data
    ELSE /\ \A k \in DOMAIN chart.sampled :
              chart.sampled[k] \in 1 .. Len(chart.data)
         /\ \A k \in 1 .. Len(chart.sampled) - 1 :
              chart.sampled[k] < chart.sampled[k + 1]
         /\ chart.sampled[1] = chart.data[1]
         /\ chart.sampled[Len(chart.sampled)] = chart.data[Len(chart.data)]
         /\ Len(chart.sampled) <= chart.maxPoints

====
